---- MODULE Spec2Model ----
(***************************************************************************)
(* The single-speaker transcription pipeline of                            *)
(* src/transcribe_single_speaker.py as a state machine.                    *)
(*                                                                         *)
(* Files are numbered 1..nfiles in the order of sorted(INPUT_DIR.glob()).  *)
(* A modification time is a positive integer; 0 stands for "the file does  *)
(* not exist".  A write stamps the file with the clock.  The clock has     *)
(* coarse granules: it may advance when a run goes from converting to      *)
(* transcribing, and it advances when somebody changes a file between two  *)
(* runs, so that derived files both equal in age to and newer than their   *)
(* sources occur.                                                          *)
(*                                                                         *)
(* The two pure functions needs_update and _cpu_workers are also called on *)
(* their own, and the sequential scripts src/run.py and                    *)
(* src/transcribe_multiple_speakers.py have their own actions and          *)
(* specification, SpecSimple.                                              *)
(***************************************************************************)
EXTENDS Integers, Sequences, FiniteSets, TLC

\* ----------------------------------------------------------------- bounds
MaxFiles == 2        \* input files discovered, Spec
MaxTime == 3         \* the clock stops advancing here
MaxRuns == 2         \* runs of main() in one behaviour
MaxEnv == 1          \* changes made to the directories between runs
MaxSegs == 2         \* segments the engine yields for a file, at most
MaxPoolFiles == 4    \* input files discovered, SpecPool
MaxMtime == 7        \* modification times given to needs_update, SpecNU
MaxCores == 64       \* CPU cores reported to _cpu_workers, SpecCW

\* ------------------------------------------------------ program constants
MAX_CONCURRENT_CONVERSIONS == 3

VARIABLES
    nfiles,       \* len(m4a_files)
    m4a,          \* mtime of each input file
    wav,          \* mtime of each OUTPUT_DIR/<stem>.wav, 0 = absent
    txt,          \* mtime of each OUTPUT_DIR/<stem>.txt, 0 = absent
    txtc,         \* content of each transcript: 0 = the header, k = segment k
    now,          \* the clock
    pc,           \* where main() is
    run,          \* number of the current run of main()
    nenv,         \* changes made to the directories so far
    prev,         \* how the previous run ended, seen from the current one
    has_mps,      \* torch.backends.mps.is_available() on this machine
    attempts,     \* load_model: candidates not tried yet
    model,        \* the Model Instance: "none", "mps", "cpu" or "auto"
    warnings,     \* load_model: fallback warnings printed
    tried,        \* load_model: candidates WhisperModel was called with
    last_error,   \* load_model: the candidate whose failure last_error holds
    task,         \* the pool's future of each file
    conversions,  \* main: the list gathered from pool.map
    ti,           \* main: position of the transcription loop in conversions
    nseg,         \* transcribe_audio: segments consumed in the open call
    tlog,         \* files model.transcribe was called for, in call order
    terr,         \* files whose model.transcribe call raised
    convd,        \* files ffmpeg was invoked for in this run
    failed,       \* some conversion, transcription or the model load failed
    cause,        \* what ended the run with an exception
    wav0, txt0,   \* wav and txt as they were when the run started
    nuS, nuT,     \* needs_update: mtimes of source and target
    nuR, nuPc,    \* needs_update: result, and whether it returned
    cores,        \* _cpu_workers: multiprocessing.cpu_count()
    workers,      \* _cpu_workers: the value returned
    cwPc,         \* _cpu_workers: whether it returned
    variant,      \* the script run: "single", "simple" or "multi"
    sfile,        \* run.py, multi-speaker: m4a_file of the loop, 0 = none
    sconv,        \* run.py, multi-speaker: files whose ffmpeg exited with 0
    sdiar,        \* multi-speaker: files diarize_audio returned for
    sfin          \* run.py, multi-speaker: files whose transcript is closed

fsVars == <<nfiles, m4a, wav, txt, txtc, now>>
loadVars == <<has_mps, attempts, model, warnings, tried, last_error>>
poolVars == <<task, conversions, convd>>
transVars == <<ti, nseg, tlog, terr>>
histVars == <<prev, wav0, txt0>>
nuVars == <<nuS, nuT, nuR, nuPc>>
cwVars == <<cores, workers, cwPc>>
simpleVars == <<variant, sfile, sconv, sdiar, sfin>>
\* What main() of transcribe_single_speaker.py never touches.
otherVars == <<nuVars, cwVars, simpleVars>>
vars == <<nfiles, m4a, wav, txt, txtc, now, pc, run, nenv, prev, has_mps,
          attempts, model, warnings, task, conversions, ti, nseg, tlog, terr,
          convd,
          failed, cause, wav0, txt0, nuS, nuT, nuR, nuPc, tried, last_error,
          cores, workers, cwPc, variant, sfile, sconv, sdiar, sfin>>

Min(a, b) == IF a < b THEN a ELSE b

Max(a, b) == IF a > b THEN a ELSE b

\* Python's "a or b" on integers.
OrElse(a, b) == IF a # 0 THEN a ELSE b

Files == 1..nfiles

Range(s) == {s[k] : k \in 1..Len(s)}

\* The clock after a point at which it may advance.
Times == {t \in {now, now + 1} : t <= MaxTime}

\* ------------------------------------------------------------ needs_update
NeedsUpdateLe(source, target) ==
    IF source = 0 THEN FALSE
    ELSE IF target = 0 THEN TRUE
    ELSE target <= source

NeedsUpdateMissingOnly(source, target) ==
    IF source = 0 THEN FALSE
    ELSE target = 0

NeedsUpdateNoSource(source, target) ==
    IF target = 0 THEN TRUE
    ELSE target < source

NeedsUpdate(source, target) ==
    IF source = 0 THEN FALSE
    ELSE IF target = 0 THEN TRUE
    ELSE target < source

\* ------------------------------------------------------------ _cpu_workers
CpuWorkersHalf(c) == c \div 2

CpuWorkers(c) == Max(1, Min(c, OrElse(c \div 2, 1)))

\* -------------------------------------------------------------- load_model
\* Lines 31-34: the ordered list of candidates, named by their device.
CandidatesCpuFirst(mps) == IF mps THEN <<"cpu", "mps">> ELSE <<"cpu">>

Candidates(mps) == IF mps THEN <<"mps", "cpu">> ELSE <<"cpu">>

\* Lines 37 and 52-53: after a failed candidate the next one is tried, and
\* RuntimeError is raised when none is left.
AfterLoadFailDegraded(rest) == IF rest = <<>> THEN "map" ELSE "load"

AfterLoadFail(rest) == IF rest = <<>> THEN "crashed" ELSE "load"

\* --------------------------------------------------------------- the pool
MaxWorkersNoCap == nfiles

MaxWorkers == Min(MAX_CONCURRENT_CONVERSIONS, nfiles)

InFlight == {i \in Files : task[i] = "running"}

Pending == {i \in Files : task[i] = "pending"}

\* Executor.map's result iterator cancels the futures it has not yielded.
NoCancel(tk) == tk

CancelPending(tk) ==
    [i \in DOMAIN tk |-> IF tk[i] = "pending" THEN "cancelled" ELSE tk[i]]

\* pool.map yields results in submission order.
GatherAny == {i \in Files : i \notin Range(conversions)}

GatherNext == {i \in Files : i = Len(conversions) + 1}

\* The transcription loop starts when the "with" block is left.
AfterGatherEarly(n) == "trans"

AfterGather(n) == IF n = nfiles THEN "trans" ELSE "gather"

\* The engine decodes deterministically: the segments it yields are a
\* function of the WAV.  File 1 yields none, file 2 one, and so on.
SegsOf(i) == (i - 1) % (MaxSegs + 1)

\* open(txt_path, "w"), line 101: what is left of the file's old content.
OpenA(old) == old

OpenW(old) == <<>>

\* Old transcripts found in OUTPUT_DIR, SpecTranscript: a header alone, and
\* a transcript longer than any the engine will yield, in another order.
OldTranscripts ==
    {<<0>>, <<0>> \o [k \in 1..(MaxSegs + 1) |-> MaxSegs + 2 - k]}

\* After a file's transcribe_audio returns: the next file, or the end.
AfterFileStop == "done"

AfterFile == IF ti >= Len(conversions) THEN "done" ELSE "trans"

\* ------------------------------------------------------------------- Init
\* Before the first run: the inputs were recorded earlier and OUTPUT_DIR is
\* empty.
InitRun ==
    /\ pc = "idle" /\ run = 0 /\ nenv = 0 /\ prev = "none"
    /\ attempts = <<>> /\ model = "none" /\ warnings = 0
    /\ tried = <<>> /\ last_error = "none"
    /\ conversions = <<>> /\ convd = {}
    /\ ti = 0 /\ nseg = 0 /\ tlog = <<>> /\ terr = {}
    /\ failed = FALSE /\ cause = "none"
    /\ now = 2

InitFiles(n) ==
    /\ nfiles = n
    /\ m4a = [i \in 1..n |-> now - 1]
    /\ wav = [i \in 1..n |-> 0]
    /\ txt = [i \in 1..n |-> 0]
    /\ txtc = [i \in 1..n |-> <<>>]
    /\ task = [i \in 1..n |-> "none"]
    /\ wav0 = wav /\ txt0 = txt

InitNU == nuS = 0 /\ nuT = 0 /\ nuR = FALSE /\ nuPc = "ret"

InitCW == cores = 1 /\ workers = 1 /\ cwPc = "ret"

\* transcribe_single_speaker.py is the script that is run.
InitSingle ==
    /\ variant = "single"
    /\ sfile = 0 /\ sconv = {} /\ sdiar = {} /\ sfin = {}

\* Spec follows a machine without the MPS backend; SpecLive both kinds.
Init ==
    /\ InitRun
    /\ \E n \in 0..MaxFiles : InitFiles(n)
    /\ has_mps = FALSE
    /\ InitNU /\ InitCW /\ InitSingle

\* ---------------------------------------------------------------- actions
\* main, lines 111-115: without inputs main returns before load_model.
AfterDiscoverLoad(n) == "load"

AfterDiscover(n) == IF n = 0 THEN "done" ELSE "load"

\* main, lines 109-115, and load_model's candidate list, lines 22-36.
Discover ==
    /\ pc \in {"idle", "done", "crashed"}
    /\ run < MaxRuns
    /\ run' = run + 1
    /\ prev' = IF pc = "done" THEN (IF failed THEN "failed" ELSE "clean")
               ELSE IF pc = "crashed" THEN "crashed" ELSE "none"
    /\ wav0' = wav /\ txt0' = txt
    /\ task' = [i \in Files |-> "none"]
    /\ conversions' = <<>> /\ convd' = {}
    /\ ti' = 0 /\ nseg' = 0 /\ tlog' = <<>> /\ terr' = {}
    /\ failed' = FALSE /\ cause' = "none"
    /\ model' = "none" /\ warnings' = 0
    /\ tried' = <<>> /\ last_error' = "none"
    /\ pc' = AfterDiscover(nfiles)
    /\ attempts' = IF pc' = "load" THEN Candidates(has_mps) ELSE <<>>
    /\ UNCHANGED <<fsVars, has_mps, nenv, otherVars>>

\* load_model, lines 37-53: one candidate is tried.
TryCandidate ==
    /\ pc = "load"
    /\ attempts # <<>>
    /\ tried' = Append(tried, Head(attempts))
    /\ \/ /\ model' = Head(attempts)
          /\ attempts' = <<>>
          /\ pc' = "map"
          /\ UNCHANGED <<warnings, last_error, failed, cause>>
       \/ /\ warnings' = warnings + 1
          /\ last_error' = Head(attempts)
          /\ attempts' = Tail(attempts)
          /\ pc' = AfterLoadFail(attempts')
          /\ IF attempts' = <<>>
             THEN failed' = TRUE /\ cause' = "load"
             ELSE UNCHANGED <<failed, cause>>
          /\ UNCHANGED model
    /\ UNCHANGED <<fsVars, has_mps, run, nenv, poolVars, transVars, histVars,
                   otherVars>>

\* main, lines 117-120: pool.map submits every file.
PoolMap ==
    /\ pc = "map"
    /\ task' = [i \in Files |-> "pending"]
    /\ pc' = "gather"
    /\ UNCHANGED <<fsVars, run, nenv, loadVars, conversions, convd, transVars,
                   failed, cause, histVars, otherVars>>

\* A worker takes the oldest queued file: _prepare_wav, lines 131-133, and
\* convert_m4a_to_wav up to the start of ffmpeg, lines 64-79.
StartTask(i) ==
    /\ task[i] = "pending"
    /\ \A j \in Pending : i <= j
    /\ Cardinality(InFlight) < MaxWorkers
    /\ IF NeedsUpdate(m4a[i], wav[i])
       THEN task' = [task EXCEPT ![i] = "running"] /\ convd' = convd \cup {i}
       ELSE task' = [task EXCEPT ![i] = "done"] /\ UNCHANGED convd
    /\ UNCHANGED <<fsVars, pc, run, nenv, loadVars, conversions, transVars,
                   failed, cause, histVars, otherVars>>

\* ffmpeg exits: subprocess.run(check=True), lines 79-81.  A failing ffmpeg
\* may or may not have written its output file.
FinishTask(i) ==
    /\ task[i] = "running"
    /\ \/ /\ task' = [task EXCEPT ![i] = "done"]
          /\ wav' = [wav EXCEPT ![i] = now]
          /\ UNCHANGED failed
       \/ /\ task' = [task EXCEPT ![i] = "failed"]
          /\ failed' = TRUE
          /\ \/ wav' = [wav EXCEPT ![i] = now]
             \/ UNCHANGED wav
    /\ UNCHANGED <<nfiles, m4a, txt, txtc, now, pc, run, nenv, loadVars,
                   conversions, convd, transVars, cause, histVars, otherVars>>

\* main, lines 120-121: the next result of pool.map is appended.
Gather ==
    /\ pc = "gather"
    /\ \E k \in GatherNext :
         /\ task[k] = "done"
         /\ conversions' = Append(conversions, k)
         /\ pc' = AfterGather(Len(conversions) + 1)
         /\ ti' = IF pc' = "trans" THEN 1 ELSE ti
         /\ IF pc' = "trans" THEN now' \in Times ELSE UNCHANGED now
    /\ UNCHANGED <<nfiles, m4a, wav, txt, txtc, run, nenv, loadVars, task,
                   convd, nseg, tlog, terr,
                   failed, cause, histVars, otherVars>>

\* main, line 120: the next result raises CalledProcessError; the iterator
\* cancels what is still queued and the "with" block waits for the workers.
GatherFail ==
    /\ pc = "gather"
    /\ \E k \in GatherNext :
         /\ task[k] = "failed"
         /\ task' = CancelPending(task)
         /\ pc' = "shutdown"
         /\ cause' = "conversion"
    /\ UNCHANGED <<fsVars, run, nenv, loadVars, conversions, convd, transVars,
                   failed, histVars, otherVars>>

\* main, line 119: ThreadPoolExecutor.__exit__ returns once no worker runs.
PoolShutdown ==
    /\ pc = "shutdown"
    /\ InFlight = {} /\ Pending = {}
    /\ pc' = "crashed"
    /\ UNCHANGED <<fsVars, run, nenv, loadVars, poolVars, transVars, failed,
                   cause, histVars, otherVars>>

\* main, lines 124-126, and transcribe_audio, lines 84-102: the freshness
\* check, the engine call, and the opening of the transcript.
TBegin ==
    /\ pc = "trans"
    /\ ti <= Len(conversions)
    /\ LET i == conversions[ti] IN
       IF ~NeedsUpdate(wav[i], txt[i])
       THEN /\ pc' = AfterFile
            /\ ti' = ti + 1
            /\ UNCHANGED <<txt, txtc, now, nseg, tlog, terr, failed>>
       ELSE /\ tlog' = Append(tlog, i)
            /\ \/ /\ terr' = terr \cup {i}
                  /\ failed' = TRUE
                  /\ pc' = AfterFile
                  /\ ti' = ti + 1
                  /\ UNCHANGED <<txt, txtc, now, nseg>>
               \/ /\ txt' = [txt EXCEPT ![i] = now]
                  /\ txtc' = [txtc EXCEPT
                               ![i] = Append(OpenW(txtc[i]), 0)]
                  /\ nseg' = 0
                  /\ pc' = "write"
                  /\ UNCHANGED <<now, ti, terr, failed>>
    /\ UNCHANGED <<nfiles, m4a, wav, run, nenv, loadVars, poolVars, cause,
                   histVars, otherVars>>

\* transcribe_audio, lines 103-104: the engine yields a segment, which is
\* written as one line.
TSegment ==
    /\ pc = "write"
    /\ nseg < SegsOf(conversions[ti])
    /\ LET i == conversions[ti] IN
         txtc' = [txtc EXCEPT ![i] = Append(txtc[i], nseg + 1)]
    /\ nseg' = nseg + 1
    /\ UNCHANGED <<nfiles, m4a, wav, txt, now, pc, run, nenv, loadVars,
                   poolVars, ti, tlog, terr, failed, cause, histVars,
                   otherVars>>

\* transcribe_audio, line 103: consuming the segments raises.  The "with"
\* block closes the file and the exception leaves transcribe_audio and main.
TSegmentRaise ==
    /\ pc = "write"
    /\ pc' = "crashed"
    /\ failed' = TRUE
    /\ cause' = "transcription"
    /\ nseg' = 0
    /\ UNCHANGED <<fsVars, run, nenv, loadVars, poolVars, ti,
                   tlog, terr, histVars, otherVars>>

\* transcribe_audio, lines 103-105: the segments end and the file is closed.
TClose ==
    /\ pc = "write"
    /\ nseg = SegsOf(conversions[ti])
    /\ pc' = AfterFile
    /\ ti' = ti + 1
    /\ nseg' = 0
    /\ UNCHANGED <<fsVars, run, nenv, loadVars, poolVars,
                   tlog, terr, failed, cause, histVars, otherVars>>

\* Between two runs somebody touches an input, or touches or deletes a
\* file of OUTPUT_DIR (an input is never deleted: nfiles is fixed).  The
\* process of the last run is gone, and what it held in memory with it.
Env ==
    /\ pc \in {"idle", "done", "crashed"}
    /\ run < MaxRuns
    /\ nenv < MaxEnv
    /\ nenv' = nenv + 1
    /\ pc' = "idle"
    /\ now' = Min(now + 1, MaxTime)
    /\ \E i \in Files :
         \/ /\ m4a' = [m4a EXCEPT ![i] = now']
            /\ UNCHANGED <<wav, txt, txtc>>
         \/ /\ wav[i] # 0
            /\ \E u \in {0, now'} : wav' = [wav EXCEPT ![i] = u]
            /\ UNCHANGED <<m4a, txt, txtc>>
         \/ /\ txt[i] # 0
            /\ txt' = [txt EXCEPT ![i] = 0]
            /\ txtc' = [txtc EXCEPT ![i] = <<>>]
            /\ UNCHANGED <<m4a, wav>>
    /\ prev' = "none" /\ wav0' = wav' /\ txt0' = txt'
    /\ task' = [i \in Files |-> "none"]
    /\ conversions' = <<>> /\ convd' = {}
    /\ ti' = 0 /\ nseg' = 0 /\ tlog' = <<>> /\ terr' = {}
    /\ failed' = FALSE /\ cause' = "none"
    /\ model' = "none" /\ warnings' = 0
    /\ tried' = <<>> /\ last_error' = "none"
    /\ UNCHANGED <<nfiles, run, has_mps, attempts, otherVars>>

Next ==
    \/ Discover
    \/ TryCandidate
    \/ PoolMap
    \/ \E i \in Files : StartTask(i)
    \/ \E i \in Files : FinishTask(i)
    \/ Gather
    \/ GatherFail
    \/ PoolShutdown
    \/ TBegin
    \/ TSegment
    \/ TSegmentRaise
    \/ TClose
    \/ Env

Spec == Init /\ [][Next]_vars

\* ------------------------------------------------- one run, nothing else
\* main() is run once and nobody touches the directories.
DiscoverOnce == Discover /\ run = 0

OneRun ==
    \/ DiscoverOnce
    \/ TryCandidate
    \/ PoolMap
    \/ \E i \in Files : StartTask(i)
    \/ \E i \in Files : FinishTask(i)
    \/ Gather
    \/ GatherFail
    \/ PoolShutdown
    \/ TBegin
    \/ TSegment
    \/ TSegmentRaise
    \/ TClose

\* One run over up to MaxPoolFiles inputs, more than the pool has workers.
InitPool ==
    /\ InitRun
    /\ \E n \in 1..MaxPoolFiles : InitFiles(n)
    /\ has_mps = FALSE
    /\ InitNU /\ InitCW /\ InitSingle

SpecPool == InitPool /\ [][OneRun]_vars

\* One run, on a machine with or without the MPS backend, in which every
\* thread that can take a step eventually takes one and every external call
\* (ffmpeg, the engine) eventually returns.
InitLive ==
    /\ InitRun
    /\ \E n \in 0..MaxFiles : InitFiles(n)
    /\ has_mps \in BOOLEAN
    /\ InitNU /\ InitCW /\ InitSingle

SpecLive == InitLive /\ [][OneRun]_vars /\ WF_vars(OneRun)

\* One run over inputs of which the last yields MaxSegs segments.  The WAVs
\* are all absent or all present and fresh; the transcripts are all absent
\* or all older than the WAVs, with some old content.
InitTranscript ==
    /\ InitRun
    /\ \E n \in 1..(MaxSegs + 1) :
         /\ nfiles = n
         /\ m4a = [i \in 1..n |-> now - 1]
         /\ \E w \in {0, now} : wav = [i \in 1..n |-> w]
         /\ \/ /\ txt = [i \in 1..n |-> 0]
               /\ txtc = [i \in 1..n |-> <<>>]
            \/ /\ txt = [i \in 1..n |-> now - 1]
               /\ \E old \in OldTranscripts : txtc = [i \in 1..n |-> old]
         /\ task = [i \in 1..n |-> "none"]
    /\ wav0 = wav /\ txt0 = txt
    /\ has_mps = FALSE
    /\ InitNU /\ InitCW /\ InitSingle

SpecTranscript == InitTranscript /\ [][OneRun]_vars

\* ------------------------------------------- needs_update on its own
\* needs_update is called once, on any pair of a source and a target.
InitCall ==
    /\ InitRun
    /\ InitFiles(0)
    /\ has_mps = FALSE
    /\ nuS \in 0..MaxMtime /\ nuT \in 0..MaxMtime
    /\ nuR = FALSE /\ nuPc = "call"
    /\ InitCW /\ InitSingle

CallNeedsUpdate ==
    /\ nuPc = "call"
    /\ nuR' = NeedsUpdate(nuS, nuT)
    /\ nuPc' = "ret"
    /\ UNCHANGED <<fsVars, pc, run, nenv, loadVars, poolVars, transVars,
                   failed, cause, histVars, nuS, nuT, cwVars, simpleVars>>

NextCall == CallNeedsUpdate

SpecNU == InitCall /\ [][NextCall]_vars

\* ------------------------------------------- _cpu_workers on its own
\* _cpu_workers is called once, on a machine with any number of cores.
InitCores ==
    /\ InitRun
    /\ InitFiles(0)
    /\ has_mps = FALSE
    /\ InitNU /\ InitSingle
    /\ cores \in 1..MaxCores /\ workers = 0 /\ cwPc = "call"

CallCpuWorkers ==
    /\ cwPc = "call"
    /\ workers' = CpuWorkers(cores)
    /\ cwPc' = "ret"
    /\ UNCHANGED <<fsVars, pc, run, nenv, loadVars, poolVars, transVars,
                   failed, cause, histVars, nuVars, cores, simpleVars>>

NextCW == CallCpuWorkers

SpecCW == InitCores /\ [][NextCW]_vars

\* ----------------------------- run.py and transcribe_multiple_speakers.py
\* The two scripts have the same main(): the multi-speaker one diarizes each
\* WAV before it transcribes it, and writes <stem>_speaker.txt, which txt and
\* txtc stand for when variant = "multi".  Nothing catches an exception.
SAfterFailureNext == "s_loop"

SAfterFailure == "crashed"

\* An exception of kind c leaves main().
SFail(c) == pc' = SAfterFailure /\ failed' = TRUE /\ cause' = c

\* One run of either script.  OUTPUT_DIR is empty, or holds a WAV and a
\* transcript for every input, both newer than the input.
InitSimple ==
    /\ InitRun
    /\ \E n \in 0..MaxFiles :
         /\ nfiles = n
         /\ m4a = [i \in 1..n |-> now - 1]
         /\ \E w \in {0, now} :
              /\ wav = [i \in 1..n |-> w]
              /\ txt = [i \in 1..n |-> w]
              /\ txtc = [i \in 1..n |-> IF w = 0 THEN <<>> ELSE <<0>>]
         /\ task = [i \in 1..n |-> "none"]
    /\ wav0 = wav /\ txt0 = txt
    /\ has_mps = FALSE
    /\ InitNU /\ InitCW
    /\ variant \in {"simple", "multi"}
    /\ sfile = 0 /\ sconv = {} /\ sdiar = {} /\ sfin = {}

\* run.py lines 30-31, multi-speaker lines 17-21 and 61-62: the engine (and
\* the diarization pipeline) are loaded, with the default device.
SMain ==
    /\ variant # "single"
    /\ pc = "idle" /\ run = 0
    /\ run' = 1
    /\ now' \in Times
    /\ \/ /\ model' = "auto" /\ pc' = "s_loop"
          /\ UNCHANGED <<failed, cause>>
       \/ SFail("load") /\ UNCHANGED model
    /\ UNCHANGED <<nfiles, m4a, wav, txt, txtc, nenv, has_mps, attempts,
                   warnings, tried, last_error, poolVars, transVars,
                   histVars, otherVars>>

\* run.py lines 33-38, multi-speaker lines 64-69: glob yields the next file,
\* in whatever order the directory lists them, and ffmpeg is started for it;
\* or glob is exhausted and main() returns.
SNextFile ==
    /\ pc = "s_loop"
    /\ IF convd = Files
       THEN pc' = "done" /\ UNCHANGED <<convd, sfile>>
       ELSE \E i \in Files \ convd :
              /\ sfile' = i
              /\ convd' = convd \cup {i}
              /\ pc' = "s_conv"
    /\ UNCHANGED <<fsVars, run, nenv, loadVars, task, conversions, transVars,
                   failed, cause, histVars, nuVars, cwVars, variant, sconv,
                   sdiar, sfin>>

\* convert_m4a_to_wav, run.py lines 11-19, multi-speaker lines 24-31: ffmpeg
\* exits.  A failing ffmpeg may or may not have written its output file.
SConvert ==
    /\ pc = "s_conv"
    /\ \/ /\ wav' = [wav EXCEPT ![sfile] = now]
          /\ sconv' = sconv \cup {sfile}
          /\ pc' = IF variant = "multi" THEN "s_diar" ELSE "s_trans"
          /\ UNCHANGED <<failed, cause>>
       \/ /\ SFail("conversion")
          /\ \/ wav' = [wav EXCEPT ![sfile] = now]
             \/ UNCHANGED wav
          /\ UNCHANGED sconv
    /\ UNCHANGED <<nfiles, m4a, txt, txtc, now, run, nenv, loadVars,
                   poolVars, transVars, histVars, nuVars, cwVars, variant,
                   sfile, sdiar, sfin>>

\* diarize_audio, multi-speaker lines 33-35 and 70.
SDiarize ==
    /\ pc = "s_diar"
    /\ \/ /\ sdiar' = sdiar \cup {sfile}
          /\ pc' = "s_trans"
          /\ UNCHANGED <<failed, cause>>
       \/ SFail("diarization") /\ UNCHANGED sdiar
    /\ UNCHANGED <<fsVars, run, nenv, loadVars, poolVars, transVars,
                   histVars, nuVars, cwVars, variant, sfile, sconv, sfin>>

\* transcribe_audio, run.py lines 21-24 and 39: the engine is called and
\* the transcript opened and given its header.  transcribe_segments,
\* multi-speaker lines 37-40 and 71: the WAV is read and the transcript
\* opened, without a header.  tlog records the file either way.
STBegin ==
    /\ pc = "s_trans"
    /\ tlog' = Append(tlog, sfile)
    /\ \/ /\ txt' = [txt EXCEPT ![sfile] = now]
          /\ txtc' = [txtc EXCEPT ![sfile] =
                        IF variant = "multi" THEN <<>> ELSE <<0>>]
          /\ nseg' = 0
          /\ pc' = "s_write"
          /\ UNCHANGED <<failed, cause>>
       \/ /\ SFail("transcription")
          /\ UNCHANGED <<txt, txtc, nseg>>
    /\ UNCHANGED <<nfiles, m4a, wav, now, run, nenv, loadVars, poolVars,
                   ti, terr, histVars, otherVars>>

\* run.py lines 25-26: a segment is yielded and written.  Multi-speaker
\* lines 41-55: a speaker turn is cut out, transcribed and written.
SSegment ==
    /\ pc = "s_write"
    /\ nseg < SegsOf(sfile)
    /\ txtc' = [txtc EXCEPT ![sfile] = Append(txtc[sfile], nseg + 1)]
    /\ nseg' = nseg + 1
    /\ UNCHANGED <<nfiles, m4a, wav, txt, now, pc, run, nenv, loadVars,
                   poolVars, ti, tlog, terr, failed, cause, histVars,
                   otherVars>>

\* The same lines: consuming the segments, or any step of a turn, raises.
SSegmentRaise ==
    /\ pc = "s_write"
    /\ SFail("transcription")
    /\ nseg' = 0
    /\ UNCHANGED <<fsVars, run, nenv, loadVars, poolVars, ti, tlog, terr,
                   histVars, otherVars>>

\* run.py lines 26-27, multi-speaker lines 55-57: the segments end, the
\* transcript is closed and the loop of main() goes on.
SClose ==
    /\ pc = "s_write"
    /\ nseg = SegsOf(sfile)
    /\ sfin' = sfin \cup {sfile}
    /\ sfile' = 0
    /\ nseg' = 0
    /\ pc' = "s_loop"
    /\ UNCHANGED <<fsVars, run, nenv, loadVars, poolVars, ti, tlog, terr,
                   failed, cause, histVars, nuVars, cwVars, variant, sconv,
                   sdiar>>

NextSimple ==
    \/ SMain
    \/ SNextFile
    \/ SConvert
    \/ SDiarize
    \/ STBegin
    \/ SSegment
    \/ SSegmentRaise
    \/ SClose

SpecSimple == InitSimple /\ [][NextSimple]_vars

\* ------------------------------------------------------------- the claims
\* What the specification calls stale: the target is missing, or strictly
\* older than its source.
Stale(source, target) == target = 0 \/ target < source

\* A step in which a worker checks file i's WAV, and one in which it goes on
\* to invoke ffmpeg.
ConvChecked(i) == task[i] = "pending" /\ task'[i] \in {"running", "done"}
ConvInvoked(i) == task[i] = "pending" /\ task'[i] = "running"

\* A step in which transcribe_audio checks file i's transcript; one in which
\* it calls the engine; one in which it opens the transcript for writing.
TChecked(i) ==
    /\ pc = "trans" /\ ti <= Len(conversions) /\ conversions[ti] = i
    /\ (pc' # pc \/ ti' # ti)
EngineInvoked == tlog' # tlog
TxtOpened == pc' = "write"

\* C1 as stated: ffmpeg is invoked for a file iff its WAV is stale when
\* checked, and the transcript is rewritten iff it is stale when checked.
C1_Original ==
    [][\A i \in Files :
         /\ ConvChecked(i) => (ConvInvoked(i) <=> Stale(m4a[i], wav[i]))
         /\ TChecked(i) => (TxtOpened <=> Stale(wav[i], txt[i]))]_vars

\* C1 as amended: ffmpeg is invoked for a file iff its WAV is stale when
\* checked; the engine is called for a file iff its transcript is stale when
\* checked; the transcript is rewritten only after such a call, when the call
\* did not raise, and is left as it is otherwise.
C1_Freshness ==
    [][\A i \in Files :
         /\ ConvChecked(i) => (ConvInvoked(i) <=> Stale(m4a[i], wav[i]))
         /\ TChecked(i) =>
              /\ EngineInvoked <=> Stale(wav[i], txt[i])
              /\ TxtOpened => EngineInvoked /\ i \notin terr'
              /\ EngineInvoked /\ i \notin terr' => TxtOpened
              /\ ~TxtOpened => txt'[i] = txt[i] /\ txtc'[i] = txtc[i]]_vars

\* A run has ended in which one WAV was stale and converted again while
\* another file was fresh and skipped by both checks.
C1_Witness ==
    /\ pc = "done"
    /\ \E i, j \in Files :
         /\ wav0[i] # 0 /\ wav0[i] < m4a[i] /\ wav[i] >= m4a[i]
         /\ i \in Range(tlog) /\ i \notin terr /\ txt[i] # txt0[i]
         /\ j # i /\ wav[j] = wav0[j] /\ wav0[j] # 0 /\ j \notin Range(tlog)
         /\ txt0[j] # 0

\* C2 as stated: needs_update(S, T) is true iff T is absent or strictly
\* older than S, whatever S is.
C2_Original == nuPc = "ret" => (nuR <=> (nuT = 0 \/ nuT < nuS))

\* C2 as amended: needs_update(S, T) is true iff S exists and T is absent or
\* strictly older than S; it is false whenever S is absent.
C2_NeedsUpdate ==
    nuPc = "ret" => (nuR <=> (nuS # 0 /\ (nuT = 0 \/ nuT < nuS)))

\* needs_update has returned true for a target older than its source.
C2_Witness == nuPc = "ret" /\ nuR /\ nuT # 0 /\ nuT < nuS

\* A run that follows another run directly, nothing having been changed in
\* between, and the way that earlier run ended.
SecondRun == prev \in {"clean", "failed"}
NothingRedone == convd = {} /\ tlog = <<>>

InRun == run >= 1 /\ pc # "idle"

\* File i's transcript was written by this run's call of the engine.
TxtGenerated(i) == i \in Range(tlog) /\ i \notin terr /\ txt[i] # 0

\* File i was fresh when the run started, as C4 states it and as amended.
BothNewer(i) ==
    /\ wav0[i] # 0 /\ txt0[i] # 0
    /\ wav0[i] > m4a[i] /\ txt0[i] > m4a[i]
Untouched(i) ==
    /\ wav[i] = wav0[i] /\ txt[i] = txt0[i]
    /\ i \notin convd /\ i \notin Range(tlog)

\* The model was loaded and neither the conversion nor the transcription of
\* file i itself failed.
OwnStepsFine(i) ==
    /\ cause # "load" /\ task[i] # "failed" /\ i \notin terr
    /\ ~(cause = "transcription" /\ conversions[ti] = i)

AllFresh ==
    \A i \in Files :
      /\ wav[i] # 0 /\ txt[i] # 0
      /\ wav[i] >= m4a[i] /\ txt[i] >= wav[i]

\* C5: a run from an empty output directory in which nothing fails comes to
\* its end, and then every input has a WAV not older than it and a transcript
\* not older than the WAV.
C5_Completes ==
    /\ <>(pc = "done" \/ failed)
    /\ [](pc = "done" /\ ~failed => AllFresh /\ convd = Files)

\* A run over two files has ended without a failure.
C5_Witness == pc = "done" /\ ~failed /\ nfiles >= 2 /\ AllFresh

\* C6: the gathered list is in the order of the sorted inputs, and the
\* engine is called for the files in that order.
C6_Order ==
    /\ \A k \in 1..Len(conversions) : conversions[k] = k
    /\ \A a, b \in 1..Len(tlog) : a < b => tlog[a] < tlog[b]

\* Two files were converted and then transcribed, the first one first.
C6_Witness ==
    /\ pc = "done" /\ conversions = <<1, 2>> /\ tlog = <<1, 2>>
    /\ convd = {1, 2} /\ terr = {}

\* The transcription loop has been entered.
TranscriptionStarted == ti > 0 \/ tlog # <<>> \/ pc \in {"trans", "write"}

\* C7: once the transcription loop has been entered, every conversion
\* submitted to the pool has completed.
C7_Barrier == TranscriptionStarted => \A i \in Files : task[i] = "done"

\* A transcript is being written after two files went through ffmpeg.
C7_Witness == pc = "write" /\ nfiles >= 2 /\ convd = Files

\* C8: a failure during the transcription of a file never ends the run.
C8_Isolation == ~(pc = "crashed" /\ cause = "transcription")

\* Some conversion has failed.
ConversionFailed == \E j \in Files : task[j] = "failed"
NoTranscription ==
    tlog = <<>> /\ ti = 0 /\ pc \notin {"trans", "write", "done"}

\* C9 as stated: after a conversion has failed nothing is transcribed, and
\* no conversion that had not completed writes a WAV any more.
C9_Original ==
    /\ [](ConversionFailed => NoTranscription)
    /\ [][ConversionFailed =>
            \A i \in Files :
              task[i] \in {"pending", "running"} => wav'[i] = wav[i]]_vars

\* C9 as amended: after a conversion has failed nothing is transcribed and
\* the run ends with the exception; once the main thread has reached the
\* failed result no conversion is queued any more, and a cancelled conversion
\* never runs or writes.  (A conversion in flight still runs to its end.)
C9_Propagates ==
    /\ [](ConversionFailed => NoTranscription)
    /\ [](pc \in {"shutdown", "crashed"} /\ cause = "conversion" =>
            ConversionFailed /\ Pending = {})
    /\ [][\A i \in Files :
            task[i] = "cancelled" /\ run' = run /\ pc' # "idle" =>
              task'[i] = "cancelled" /\ wav'[i] = wav[i]]_vars

\* A run has ended with a failed conversion, a cancelled one, and one that
\* was in flight and still wrote its WAV.
C9_Witness ==
    /\ pc = "crashed" /\ cause = "conversion"
    /\ \E i, j, k \in Files :
         /\ task[i] = "failed" /\ task[j] = "cancelled"
         /\ i < k /\ task[k] = "done" /\ k \in convd /\ wav[k] # 0

\* C10: never more conversions in flight than MAX_CONCURRENT_CONVERSIONS,
\* and never more than there are files.
C10_WorkerBound ==
    /\ Cardinality(InFlight) <= MAX_CONCURRENT_CONVERSIONS
    /\ Cardinality(InFlight) <= nfiles

\* The pool is full: as many conversions in flight as allowed, one queued.
C10_Witness ==
    /\ Cardinality(InFlight) = MAX_CONCURRENT_CONVERSIONS
    /\ Pending # {}

\* load_model has returned or raised in this run.
LoadOver == model # "none" \/ cause = "load"

\* C11: load_model tries the MPS candidate first iff the backend is
\* available and the CPU candidate last; it returns the first candidate that
\* instantiates and tries none after it; when MPS fails and CPU succeeds the
\* CPU instance is returned and exactly one fallback warning was printed.
C11_Fallback ==
    /\ [](\A k \in 1..Len(tried) :
            tried[k] = (IF has_mps /\ k = 1 THEN "mps" ELSE "cpu"))
    /\ [](Len(tried) <= (IF has_mps THEN 2 ELSE 1))
    /\ [](LoadOver /\ model # "mps" => tried[Len(tried)] = "cpu")
    /\ [](model # "none" =>
            model = tried[Len(tried)] /\ warnings = Len(tried) - 1)
    /\ [](tried = <<"mps", "cpu">> /\ model # "none" =>
            model = "cpu" /\ warnings = 1)
    /\ [][model # "none" /\ run' = run =>
            tried' = tried /\ model' = model /\ warnings' = warnings]_vars

\* The MPS candidate failed, the CPU candidate was returned, and the run went
\* on to its end with it.
C11_Witness ==
    /\ pc = "done" /\ has_mps /\ model = "cpu"
    /\ tried = <<"mps", "cpu">> /\ warnings = 1

\* Every candidate of load_model was tried and none instantiated.
AllFailed == model = "none" /\ Len(tried) = (IF has_mps THEN 2 ELSE 1)

\* Nothing was converted or transcribed in this run and no file of
\* OUTPUT_DIR is other than it was when the run started.
NothingDone ==
    /\ convd = {} /\ conversions = <<>> /\ tlog = <<>> /\ ti = 0
    /\ \A i \in Files : task[i] = "none"
    /\ wav = wav0 /\ txt = txt0

\* C12: when every candidate has failed, load_model raises with the last
\* candidate's failure as its cause, and the run has ended with nothing
\* converted, nothing transcribed and no file of OUTPUT_DIR written.
C12_Fatal ==
    AllFailed =>
      /\ pc = "crashed" /\ cause = "load" /\ failed
      /\ last_error = tried[Len(tried)] /\ last_error = "cpu"
      /\ warnings = Len(tried)
      /\ NothingDone

\* Both candidates failed on a machine with the MPS backend.
C12_Witness ==
    /\ pc = "crashed" /\ cause = "load" /\ nfiles >= 1
    /\ has_mps /\ tried = <<"mps", "cpu">> /\ warnings = 2

\* Model Instances created by this run's load_model: the candidates tried
\* less those that failed.
Created == Len(tried) - warnings

\* A step in which transcribe_audio calls model.transcribe.
EngineCalled == Len(tlog') = Len(tlog) + 1

\* Files the engine was called for whose transcribe_audio call has not been
\* left by the loop of main.
OpenCalls ==
    {i \in Range(tlog) : ~\E k \in 1..(ti - 1) : conversions[k] = i}

\* C13: in a run at most one Model Instance is created; every engine call
\* uses it, and it is never replaced; at most one transcription call is open
\* at a time, and none while a conversion is queued or in flight.
C13_SharedModel ==
    /\ [](Created <= 1 /\ (Created = 1 <=> model # "none"))
    /\ [](TranscriptionStarted => model # "none")
    /\ [][EngineCalled => model # "none" /\ model' = model]_vars
    /\ [][model # "none" /\ run' = run /\ pc' # "idle" =>
            model' = model]_vars
    /\ [](Cardinality(OpenCalls) <= 1)
    /\ [](OpenCalls # {} =>
            pc \in {"write", "crashed"} /\ OpenCalls = {conversions[ti]})
    /\ [](TranscriptionStarted => InFlight = {} /\ Pending = {})

\* The second of two transcripts is being written with the CPU instance
\* that was created after the MPS candidate had failed.
C13_Witness ==
    /\ pc = "write" /\ ti = 2 /\ tlog = <<1, 2>> /\ convd = Files
    /\ model = "cpu" /\ tried = <<"mps", "cpu">>

\* C14: a run that discovers no input ends normally without trying to load
\* the model, converting or transcribing; and whenever load_model is called
\* it is after discovery, and it has returned before a conversion is queued.
C14_EmptyNoOp ==
    /\ [](nfiles = 0 /\ InRun =>
            /\ pc = "done" /\ ~failed /\ cause = "none"
            /\ tried = <<>> /\ attempts = <<>> /\ model = "none"
            /\ NothingDone)
    /\ (nfiles = 0 ~> pc = "done")
    /\ [](tried # <<>> => InRun /\ nfiles > 0)
    /\ [](pc = "load" => NothingDone)
    /\ [](convd # {} \/ (\E i \in Files : task[i] # "none") =>
            model # "none" /\ pc # "load")

\* A run over an empty input directory has ended.
C14_Witness == nfiles = 0 /\ run = 1 /\ pc = "done" /\ tried = <<>>

\* File i's transcribe_audio call of this run opened the transcript and
\* returned after the with block of lines 101-104.
WriteCompleted(i) ==
    /\ i \in Range(tlog) /\ i \notin terr
    /\ \E k \in 1..(ti - 1) : conversions[k] = i

\* The header, then segments 1..n in their order.
HeaderAnd(n) == <<0>> \o [k \in 1..n |-> k]

\* C15: a transcript whose write was completed holds the header and then
\* one line for each segment the engine yielded for the WAV, in the order
\* yielded, and nothing of what the file held before; while it is written
\* it holds the header and the segments consumed so far.
C15_Content ==
    /\ \A i \in Files : WriteCompleted(i) => txtc[i] = HeaderAnd(SegsOf(i))
    /\ pc = "write" => txtc[conversions[ti]] = HeaderAnd(nseg)

\* The file that yields MaxSegs segments had an old transcript and has been
\* written again.
C15_Witness ==
    /\ pc = "done" /\ nfiles = MaxSegs + 1
    /\ txt0[nfiles] # 0 /\ WriteCompleted(nfiles)
    /\ Len(txtc[nfiles]) = MaxSegs + 1

\* C16: for c >= 1 cores _cpu_workers returns max(1, c // 2): at least 1,
\* at most c, and half of c rounded down when c >= 2.
C16_Workers ==
    cwPc = "ret" =>
      /\ workers = (IF cores \div 2 >= 1 THEN cores \div 2 ELSE 1)
      /\ workers >= 1 /\ workers <= cores
      /\ cores >= 2 => 2 * workers \in {cores - 1, cores}

\* _cpu_workers has returned on a machine with one core, with an odd number
\* of cores, or with an even number.
C16_Witness ==
    /\ cwPc = "ret"
    /\ \/ cores = 1 /\ workers = 1
       \/ cores = 7 /\ workers = 3
       \/ cores = 8 /\ workers = 4

\* File i's transcript exists, is not being written, and the freshness check
\* of transcribe_audio would skip it.
FreshTranscript(i) ==
    /\ txt[i] # 0 /\ ~NeedsUpdate(wav[i], txt[i])
    /\ ~(pc = "write" /\ conversions[ti] = i)

\* C17: a transcription that fails leaves no transcript that the freshness
\* check takes for up to date, so a transcript that exists and is fresh is
\* the complete output of a transcription: the header and every segment.
C17_Retried ==
    \A i \in Files : FreshTranscript(i) => txtc[i] = HeaderAnd(SegsOf(i))

\* run.py or the multi-speaker script has started a step of file i.
SStarted(i) == i \in convd

\* C18: in run.py and in the multi-speaker script ffmpeg is run for every
\* file the loop reaches, fresh or not, and has exited before the file is
\* diarized or transcribed; a file is started only when every file started
\* before it has its transcript closed; and after a failure of any step the
\* run has ended and nothing more is started or written.
C18_Sequential ==
    /\ [](pc = "done" =>
            convd = Files /\ sconv = Files /\ sfin = Files /\ ~failed)
    /\ [](sfin \subseteq Range(tlog) /\ sdiar \subseteq sconv)
    /\ [](\A i \in Range(tlog) :
            i \in sconv /\ (variant = "multi" => i \in sdiar))
    /\ [](\A i \in Files : SStarted(i) => i \in sfin \/ i = sfile)
    /\ [](failed => pc = "crashed")
    /\ [][failed =>
            /\ convd' = convd /\ tlog' = tlog /\ sdiar' = sdiar
            /\ wav' = wav /\ txt' = txt /\ txtc' = txtc]_vars

\* The multi-speaker script has ended after converting, diarizing and
\* transcribing two files that both had a fresh WAV and transcript.
C18_Witness ==
    /\ variant = "multi" /\ pc = "done" /\ nfiles >= 2
    /\ \A i \in Files :
         wav0[i] >= m4a[i] /\ txt0[i] >= wav0[i] /\ wav0[i] # 0
    /\ convd = Files /\ sdiar = Files /\ sfin = Files

====
